---- MODULE Spec2Model ----
(***************************************************************************)
(* Model of the Anki provisioning scripts:                                 *)
(*   scripts/get_anki_synckey.py  (get_sync_key, main)                     *)
(*   scripts/setup_anki.py        (AnkiSetup and its operations)           *)
(*                                                                         *)
(* Part 1 models the sync-key exchange as a process per call, one step per *)
(* statement group of get_sync_key / get_sync_key_from_server, so that two *)
(* calls interleave.  Part 2 models the provisioning operations on the     *)
(* file system of the config directory.                                    *)
(***************************************************************************)
EXTENDS Integers, Sequences, FiniteSets, TLC

VARIABLES
    calls,      \* call id -> the locals of that call of the key exchange
    network,    \* requests in flight: set of [conn, req]
    wire,       \* connection -> what the server sent back on it, or NoResponse
    served,     \* the server's log: set of [req, reply], the reply it gave to req
    fs,         \* the files under config_dir/.local/share/Anki2
    last,       \* what the last provisioning run was and did
    runs        \* number of provisioning runs so far

vars == <<calls, network, wire, served, fs, last, runs>>

exchangeVars == <<calls, network, wire, served>>
setupVars == <<fs, last, runs>>

(***************************************************************************)
(* Python values.  A value is a record [t, s, n]: its type tag, its text   *)
(* (str: the string, list: its repr) and its number (int: the value,       *)
(* list: its length).                                                      *)
(***************************************************************************)
PyNone == [t |-> "none", s |-> "", n |-> 0]
PyString(s) == [t |-> "str", s |-> s, n |-> 0]
PyInt(n) == [t |-> "int", s |-> "", n |-> n]
PyList(repr, len) == [t |-> "list", s |-> repr, n |-> len]

\* bool(v), `if v`, `not v`
Truthy(v) ==
    CASE v.t = "none" -> FALSE
      [] v.t = "str"  -> v.s # ""
      [] v.t = "int"  -> v.n # 0
      [] v.t = "list" -> v.n > 0

\* str(v), as print(v) writes it
PyStr(v) ==
    CASE v.t = "none" -> "None"
      [] v.t = "str"  -> v.s
      [] v.t = "int"  -> ToString(v.n)
      [] v.t = "list" -> v.s

\* v[:4] and v[-4:] succeed on sequences only; anything else raises TypeError
Sliceable(v) == v.t \in {"str", "list"}

(***************************************************************************)
(* Bytes: a text followed by `pad` bytes of trailing whitespace.           *)
(***************************************************************************)
Bytes(text, pad) == [text |-> text, pad |-> pad]
ByteLen(b) == Len(b.text) + b.pad
NoBytes == Bytes("", 0)

(***************************************************************************)
(* zstandard.  A compressed buffer is one frame: "sized" (the frame header *)
(* declares the content size, what ZstdCompressor().compress writes),      *)
(* "unsized" (a streaming frame, no content size in the header) or         *)
(* "corrupt" (not a zstd frame).                                           *)
(***************************************************************************)
Frame(kind, content) == [frame |-> kind, content |-> content]

ZstdCompress(b) == Frame("sized", b)

MAX_OUTPUT_SIZE == 10 * 1024 * 1024

\* ZstdDecompressor().decompress(buf, max_output_size=m): max_output_size is
\* the output buffer for a frame that does not declare its content size; a
\* frame that declares it is decompressed to the declared size.
ZstdDecompressOk(buf, m) ==
    CASE buf.frame = "corrupt" -> FALSE
      [] buf.frame = "sized"   -> TRUE
      [] buf.frame = "unsized" -> ByteLen(buf.content) <= m

\* ZstdDecompressor().stream_reader(buf).read(): reads to the end of the frame
StreamReadOk(buf) == buf.frame # "corrupt"

(***************************************************************************)
(* json.  The documents a server may send, and json.loads on them.         *)
(***************************************************************************)
KEY_A == "ABCD1234EFGH5678"
KEY_B == "ZYXW9876VUTS5432"
Keys == {KEY_A, KEY_B}

DocKey(k) == "{\"key\": \"" \o k \o "\"}"
DocKeyHost(k) == "{\"key\": \"" \o k \o "\", \"hostNum\": 21}"
DocNoKey == "{\"msg\": \"invalid credentials\"}"
DocKeyInt == "{\"key\": 123}"
DocKeyList == "{\"key\": [\"ab\"]}"
DocNumber == "5"
DocList == "[\"key\"]"
DocNotJson == "<html>502 Bad Gateway</html>"

\* parsed JSON: the type of the top-level value, whether `"key" in data`
\* finds something, and data["key"] for an object
Data(t, haskey, key) == [t |-> t, haskey |-> haskey, key |-> key]
NoData == Data("none", FALSE, PyNone)

JsonValid(b) == b.text # DocNotJson

JsonLoads(b) ==
    CASE \E k \in Keys \cup {""} : b.text = DocKey(k) ->
            Data("dict", TRUE, PyString(CHOOSE k \in Keys \cup {""} : b.text = DocKey(k)))
      [] \E k \in Keys : b.text = DocKeyHost(k) ->
            Data("dict", TRUE, PyString(CHOOSE k \in Keys : b.text = DocKeyHost(k)))
      [] b.text = DocNoKey   -> Data("dict", FALSE, PyNone)
      [] b.text = DocKeyInt  -> Data("dict", TRUE, PyInt(123))
      [] b.text = DocKeyList -> Data("dict", TRUE, PyList("['ab']", 1))
      [] b.text = DocNumber  -> Data("int", FALSE, PyNone)
      [] b.text = DocList    -> Data("list", TRUE, PyNone)

\* json.dumps({"u": username, "p": password}).encode('utf-8')
JsonDumpsPayload(u, p) ==
    Bytes("{\"u\": \"" \o u \o "\", \"p\": \"" \o p \o "\"}", 0)

(***************************************************************************)
(* HTTP.                                                                   *)
(***************************************************************************)
ANKIWEB_HOST_KEY_URL == "https://sync21.ankiweb.net/sync/hostKey"

Request(url, sync, ctype, agent, body) ==
    [url |-> url, anki_sync |-> sync, content_type |-> ctype,
     user_agent |-> agent, data |-> body]
NoRequest == Request("", "", "", "", Frame("corrupt", NoBytes))

\* What requests.post ends with: a response object, or a raised
\* requests.exceptions.Timeout / ConnectionError.
Response(kind, status, content) ==
    [kind |-> kind, status_code |-> status, content |-> content]
NoResponse == Response("none", 0, Frame("corrupt", NoBytes))

\* one line written to a channel: the text and, for an HTTP error, the status
Line(msg, code) == [msg |-> msg, code |-> code]

(***************************************************************************)
(* Part 1: the key exchange.  `st` holds the locals of one call.           *)
(*   variant "cli"   : get_anki_synckey.get_sync_key (then main)           *)
(*   variant "setup" : AnkiSetup.get_sync_key_from_server                  *)
(***************************************************************************)
NewCall(variant, debug, username, password) ==
    [variant |-> variant, debug |-> debug,
     username |-> username, password |-> password,
     pc |-> "Idle",
     request |-> NoRequest,
     response |-> NoResponse,
     path |-> "none",                   \* which decoder produced decompressed_body
     decompressed_body |-> NoBytes,
     data |-> NoData,
     exc |-> "none",                    \* class of the exception in flight
     trace |-> <<>>,                    \* the library calls made so far, in order
     ret |-> PyNone,                    \* the value returned, once pc = "Returned"
     stdout |-> <<>>,
     stderr |-> <<>>,
     exit_code |-> -1]

\* variation: a bare `return` on the failure paths
FailureValueNone(variant) == PyNone

\* the value both functions return on every failure path
FailureValue(variant) == IF variant = "cli" THEN PyString("") ELSE PyNone

\* print(..., file=sys.stderr) in get_sync_key; self.info (print) in AnkiSetup
Report(st, line) ==
    IF st.variant = "cli"
    THEN [st EXCEPT !.stderr = Append(@, line)]
    ELSE [st EXCEPT !.stdout = Append(@, line)]

ReturnFailure(st, line) ==
    [Report(st, line) EXCEPT !.pc = "Returned", !.ret = FailureValue(st.variant)]

ReturnValue(st, v) == [st EXCEPT !.pc = "Returned", !.ret = v]

Raise(st, class) == [st EXCEPT !.pc = "Raised", !.exc = class]

\* history of the call: which library call it has just made
Called(st, what) == [st EXCEPT !.trace = Append(@, what)]

\* payload, compressed body, sync header, headers
BuildRequest(st) ==
    [Called(st, "compress") EXCEPT
        !.pc = "RequestBuilt",
        !.request = Request(ANKIWEB_HOST_KEY_URL,
                            "{\"v\": 11, \"k\": \"\", \"c\": \"anki,24.11.3 (dev),linux\", \"s\": \"\"}",
                            "application/octet-stream", "Anki",
                            ZstdCompress(JsonDumpsPayload(st.username, st.password)))]

\* response = requests.post(...): the reply arrives, or the call raises
ReceiveResponse(st, reply) ==
    IF reply.kind = "response"
    THEN [Called(st, "post") EXCEPT !.pc = "CheckStatus", !.response = reply]
    ELSE Raise(Called(st, "post"), reply.kind)

\* variation: the status check left out
CheckStatusIgnored(st) == [st EXCEPT !.pc = "Decompress"]

\* if response.status_code != 200: report and return
CheckStatus(st) ==
    IF st.response.status_code # 200
    THEN ReturnFailure(st, Line(IF st.variant = "cli"
                                THEN "Error: HTTP from AnkiWeb"
                                ELSE "[ERROR] HTTP from AnkiWeb",
                                st.response.status_code))
    ELSE [st EXCEPT !.pc = "Decompress"]

\* decompressor.decompress(response.content, max_output_size=10*1024*1024);
\* a ZstdError enters the inner except clause, which starts the streaming read
Decompress(st) ==
    IF ZstdDecompressOk(st.response.content, MAX_OUTPUT_SIZE)
    THEN [Called(st, "decompress") EXCEPT
                    !.pc = "ParseSingle", !.path = "single",
                    !.decompressed_body = st.response.content.content]
    ELSE [Called(st, "decompress") EXCEPT !.pc = "StreamRead"]

\* with decompressor.stream_reader(response.content) as reader: reader.read()
StreamRead(st) ==
    IF StreamReadOk(st.response.content)
    THEN [Called(st, "stream_reader") EXCEPT
                    !.pc = "ParseStream", !.path = "stream",
                    !.decompressed_body = st.response.content.content]
    ELSE Raise(Called(st, "stream_reader"), "ZstdError")

\* variation: the inner except clause also catching the JSON error
ParseSingleFallsBack(st) ==
    IF JsonValid(st.decompressed_body)
    THEN [Called(st, "json.loads") EXCEPT
                    !.pc = "ExtractSingle", !.data = JsonLoads(st.decompressed_body)]
    ELSE [Called(st, "json.loads") EXCEPT !.pc = "StreamRead"]

\* data = json.loads(decompressed_body), on the single-shot path
ParseSingle(st) ==
    IF JsonValid(st.decompressed_body)
    THEN [Called(st, "json.loads") EXCEPT
                    !.pc = "ExtractSingle", !.data = JsonLoads(st.decompressed_body)]
    ELSE Raise(Called(st, "json.loads"), "JSONDecodeError")

\* data = json.loads(decompressed_body), in the except clause
ParseStream(st) ==
    IF JsonValid(st.decompressed_body)
    THEN [Called(st, "json.loads") EXCEPT
                    !.pc = "ExtractStream", !.data = JsonLoads(st.decompressed_body)]
    ELSE Raise(Called(st, "json.loads"), "JSONDecodeError")

\* `"key" in data` raises TypeError on a value that is no container
Iterable(data) == data.t \in {"dict", "list", "str"}

\* if "key" in data: return data["key"] ... else: report, return
\* get_sync_key also builds the log line f"...{sync_key[:4]}***{sync_key[-4:]}"
\* before log_debug looks at `debug`.
KeyOrFailure(st, nokey) ==
    IF ~Iterable(st.data) THEN Raise(st, "TypeError")
    ELSE IF ~st.data.haskey THEN ReturnFailure(st, Line(nokey, 0))
    ELSE IF st.data.t # "dict" THEN Raise(st, "TypeError")
    ELSE IF st.variant = "cli" /\ ~Sliceable(st.data.key) THEN Raise(st, "TypeError")
    ELSE ReturnValue(st, st.data.key)

\* the single-shot path; with debug, get_sync_key first calls data.items()
ExtractSingle(st) ==
    IF st.variant = "cli" /\ st.debug /\ st.data.t # "dict"
    THEN Raise(st, "AttributeError")
    ELSE KeyOrFailure(st, IF st.variant = "cli"
                          THEN "Error: No 'key' in AnkiWeb response"
                          ELSE "[ERROR] No 'key' in AnkiWeb response")

\* the streaming path
ExtractStream(st) ==
    KeyOrFailure(st, IF st.variant = "cli"
                     THEN "Error: No 'key' in response"
                     ELSE "[ERROR] No 'key' in response")

\* the outer except clauses, in order
HandleException(st) ==
    IF st.variant = "cli"
    THEN CASE st.exc = "Timeout"         -> ReturnFailure(st, Line("Error: Connection timeout", 0))
           [] st.exc = "ConnectionError" -> ReturnFailure(st, Line("Error: Connection failed", 0))
           [] st.exc = "JSONDecodeError" -> ReturnFailure(st, Line("Error: Invalid JSON response", 0))
           [] OTHER                      -> ReturnFailure(st, Line("Error: " \o st.exc, 0))
    ELSE CASE st.exc \in {"Timeout", "ConnectionError"}
                                         -> ReturnFailure(st, Line("[ERROR] Connection error", 0))
           [] OTHER                      -> ReturnFailure(st, Line("[ERROR] " \o st.exc, 0))

\* get_anki_synckey.main after get_sync_key returned
Main(st) ==
    IF Truthy(st.ret)
    THEN [st EXCEPT !.pc = "Exited", !.stdout = Append(@, Line(PyStr(st.ret), 0)),
                    !.exit_code = 0]
    ELSE [st EXCEPT !.pc = "Exited", !.exit_code = 1]

\* one step of the code after the reply is in
Step(st) ==
    CASE st.pc = "CheckStatus"   -> CheckStatus(st)
      [] st.pc = "Decompress"    -> Decompress(st)
      [] st.pc = "StreamRead"    -> StreamRead(st)
      [] st.pc = "ParseSingle"   -> ParseSingle(st)
      [] st.pc = "ParseStream"   -> ParseStream(st)
      [] st.pc = "ExtractSingle" -> ExtractSingle(st)
      [] st.pc = "ExtractStream" -> ExtractStream(st)
      [] st.pc = "Raised"        -> HandleException(st)

\* the call run to its return, given what requests.post ends with
RECURSIVE RunToReturn(_)
RunToReturn(st) == IF st.pc = "Returned" THEN st ELSE RunToReturn(Step(st))

Exchange(variant, debug, username, password, reply) ==
    RunToReturn(ReceiveResponse(BuildRequest(NewCall(variant, debug, username, password)),
                                reply))

(***************************************************************************)
(* The environment of the exchange: callers and the server.                *)
(***************************************************************************)
Calls == {"c1", "c2"}
Accounts == {[username |-> "alice@example.com", password |-> "hunter2"],
             [username |-> "bob", password |-> "s3cret"]}
Modes == {[variant |-> "cli", debug |-> FALSE],
          [variant |-> "cli", debug |-> TRUE],
          [variant |-> "setup", debug |-> FALSE]}

\* decompressed response bodies: the documents, one of them padded with
\* whitespace beyond the cap and one padded exactly to the cap
Contents ==
    {Bytes(d, 0) : d \in {DocKey(KEY_A), DocKey(KEY_B), DocKey(""), DocKeyHost(KEY_A),
                          DocNoKey, DocKeyInt, DocKeyList, DocNumber, DocList,
                          DocNotJson}}
    \cup {Bytes(DocKey(KEY_A), MAX_OUTPUT_SIZE),
          Bytes(DocKey(KEY_B), MAX_OUTPUT_SIZE - Len(DocKey(KEY_B)))}

Bodies == {Frame(f, b) : f \in {"sized", "unsized"}, b \in Contents}
          \cup {Frame("corrupt", NoBytes)}

\* bodies sent along with an error status
ErrorBodies == {Frame("sized", Bytes(DocKey(KEY_A), 0)), Frame("corrupt", NoBytes)}
ErrorStatusCodes == {403, 500}

\* every way requests.post can end
Replies ==
    {Response("response", 200, b) : b \in Bodies}
    \cup {Response("response", s, b) : s \in ErrorStatusCodes, b \in ErrorBodies}
    \cup {Response("Timeout", 0, Frame("corrupt", NoBytes)),
          Response("ConnectionError", 0, Frame("corrupt", NoBytes))}

\* variation: one connection shared by all calls
ConnShared(c) == "c1"

\* requests.post opens a connection of its own for every call
Conn(c) == c

\* the calls carry different credentials
ExchangeInit ==
    /\ \E m1, m2 \in Modes, a1, a2 \in Accounts :
          /\ a1 # a2
          /\ calls = [c \in Calls |->
                        IF c = "c1"
                        THEN NewCall(m1.variant, m1.debug, a1.username, a1.password)
                        ELSE NewCall(m2.variant, m2.debug, a2.username, a2.password)]
    /\ network = {}
    /\ wire = [c \in Calls |-> NoResponse]
    /\ served = {}

DoBuildRequest(c) ==
    /\ calls[c].pc = "Idle"
    /\ calls' = [calls EXCEPT ![c] = BuildRequest(@)]
    /\ UNCHANGED <<network, wire, served>>
    /\ UNCHANGED setupVars

\* requests.post sends the request and blocks
DoSend(c) ==
    /\ calls[c].pc = "RequestBuilt"
    /\ calls' = [calls EXCEPT ![c].pc = "Sent"]
    /\ network' = network \cup {[conn |-> Conn(c), req |-> calls[c].request]}
    /\ UNCHANGED <<wire, served>>
    /\ UNCHANGED setupVars

\* the server (or the network) answers one request, in any way
ServerReply(m, reply) ==
    /\ m \in network
    /\ wire[m.conn] = NoResponse
    /\ network' = network \ {m}
    /\ wire' = [wire EXCEPT ![m.conn] = reply]
    /\ served' = served \cup {[req |-> m.req, reply |-> reply]}
    /\ UNCHANGED calls
    /\ UNCHANGED setupVars

DoReceive(c) ==
    /\ calls[c].pc = "Sent"
    /\ wire[Conn(c)] # NoResponse
    /\ calls' = [calls EXCEPT ![c] = ReceiveResponse(@, wire[Conn(c)])]
    /\ wire' = [wire EXCEPT ![Conn(c)] = NoResponse]
    /\ UNCHANGED <<network, served>>
    /\ UNCHANGED setupVars

DoCheckStatus(c) ==
    /\ calls[c].pc = "CheckStatus"
    /\ calls' = [calls EXCEPT ![c] = CheckStatus(@)]
    /\ UNCHANGED <<network, wire, served>>
    /\ UNCHANGED setupVars

DoDecompress(c) ==
    /\ calls[c].pc = "Decompress"
    /\ calls' = [calls EXCEPT ![c] = Decompress(@)]
    /\ UNCHANGED <<network, wire, served>>
    /\ UNCHANGED setupVars

DoStreamRead(c) ==
    /\ calls[c].pc = "StreamRead"
    /\ calls' = [calls EXCEPT ![c] = StreamRead(@)]
    /\ UNCHANGED <<network, wire, served>>
    /\ UNCHANGED setupVars

DoParseSingle(c) ==
    /\ calls[c].pc = "ParseSingle"
    /\ calls' = [calls EXCEPT ![c] = ParseSingle(@)]
    /\ UNCHANGED <<network, wire, served>>
    /\ UNCHANGED setupVars

DoParseStream(c) ==
    /\ calls[c].pc = "ParseStream"
    /\ calls' = [calls EXCEPT ![c] = ParseStream(@)]
    /\ UNCHANGED <<network, wire, served>>
    /\ UNCHANGED setupVars

DoExtractSingle(c) ==
    /\ calls[c].pc = "ExtractSingle"
    /\ calls' = [calls EXCEPT ![c] = ExtractSingle(@)]
    /\ UNCHANGED <<network, wire, served>>
    /\ UNCHANGED setupVars

DoExtractStream(c) ==
    /\ calls[c].pc = "ExtractStream"
    /\ calls' = [calls EXCEPT ![c] = ExtractStream(@)]
    /\ UNCHANGED <<network, wire, served>>
    /\ UNCHANGED setupVars

DoHandleException(c) ==
    /\ calls[c].pc = "Raised"
    /\ calls' = [calls EXCEPT ![c] = HandleException(@)]
    /\ UNCHANGED <<network, wire, served>>
    /\ UNCHANGED setupVars

\* get_sync_key has returned to main
DoMain(c) ==
    /\ calls[c].variant = "cli"
    /\ calls[c].pc = "Returned"
    /\ calls' = [calls EXCEPT ![c] = Main(@)]
    /\ UNCHANGED <<network, wire, served>>
    /\ UNCHANGED setupVars

ExchangeNext ==
    \/ \E c \in Calls : DoBuildRequest(c)
    \/ \E c \in Calls : DoSend(c)
    \/ \E m \in network, reply \in Replies : ServerReply(m, reply)
    \/ \E c \in Calls : DoReceive(c)
    \/ \E c \in Calls : DoCheckStatus(c)
    \/ \E c \in Calls : DoDecompress(c)
    \/ \E c \in Calls : DoStreamRead(c)
    \/ \E c \in Calls : DoParseSingle(c)
    \/ \E c \in Calls : DoParseStream(c)
    \/ \E c \in Calls : DoExtractSingle(c)
    \/ \E c \in Calls : DoExtractStream(c)
    \/ \E c \in Calls : DoHandleException(c)
    \/ \E c \in Calls : DoMain(c)

(***************************************************************************)
(* Part 2: provisioning (setup_anki.py).  The state is the files under     *)
(* config_dir/.local/share/Anki2; every run of the script is one step.     *)
(***************************************************************************)
ANKIWEB_SYNC_URL == "https://sync21.ankiweb.net/"
DEFAULT_PROFILE == "user"

\* a dict with string keys; values are kept as their JSON text
EmptyDict == [k \in {} |-> ""]
\* variation: dict.update keeping the values already there
DictUpdateKeepsOld(d, e) ==
    [k \in DOMAIN d \cup DOMAIN e |-> IF k \in DOMAIN d THEN d[k] ELSE e[k]]

\* dict.update
DictUpdate(d, e) ==
    [k \in DOMAIN d \cup DOMAIN e |-> IF k \in DOMAIN e THEN e[k] ELSE d[k]]

\* the record create_profile pickles under DEFAULT_PROFILE
Profile(user, key, auto, media, url, host) ==
    [syncUser |-> user, syncKey |-> key, autoSync |-> auto, syncMedia |-> media,
     currentSyncUrl |-> url, hostNum |-> host]
NoProfile == Profile("", PyNone, FALSE, FALSE, "", 0)

\* prefs21.db, the add-on folder addons21/2055492159 and its config.json
PrefsDb(exists, profile) == [exists |-> exists, profile |-> profile]
AddonFolder(exists, files, meta) == [exists |-> exists, files |-> files, meta |-> meta]
ConfigJson(exists, valid, map, writer) ==
    [exists |-> exists, valid |-> valid, map |-> map, writer |-> writer]
NoConfigJson == ConfigJson(FALSE, FALSE, EmptyDict, "none")

Files(db, folder, config) == [prefs_db |-> db, addon_folder |-> folder, config_json |-> config]

EmptyFiles == Files(PrefsDb(FALSE, NoProfile), AddonFolder(FALSE, {}, FALSE), NoConfigJson)

\* the running operation: the files, the network calls made, the operations
\* entered, the files each found on entry and the values returned so far
\* (each in the order they happened), and the value the operation returned
Ctx(files, net, ops, ok) ==
    [fs |-> files, net |-> net, ops |-> ops, entry |-> <<>>, rets |-> <<>>, ok |-> ok]

Enter(ctx, op) == [ctx EXCEPT !.ops = Append(@, op), !.entry = Append(@, ctx.fs)]
Return(ctx, ok) == [ctx EXCEPT !.ok = ok, !.rets = Append(@, ok)]

\* the profile database written by create_profile
CreatedDb(sync_user, final_sync_key, no_sync) ==
    PrefsDb(TRUE,
            Profile(IF no_sync THEN "" ELSE sync_user,
                    IF no_sync THEN PyString("") ELSE final_sync_key,
                    Truthy(final_sync_key), Truthy(final_sync_key),
                    ANKIWEB_SYNC_URL, 21))

\* variation: create_profile without its existence check
DbPresentNever(ctx) == FALSE

\* self.prefs_db.exists()
DbPresent(ctx) == ctx.fs.prefs_db.exists

\* variation: the password is exchanged even when a key was supplied
NeedsExchangePasswordFirst(sync_key, sync_password, no_sync) ==
    Truthy(sync_password) /\ ~no_sync

\* not final_sync_key and sync_password and not no_sync
NeedsExchange(sync_key, sync_password, no_sync) ==
    ~Truthy(PyString(sync_key)) /\ Truthy(sync_password) /\ ~no_sync

\* AnkiSetup.create_profile; `reply` is how the key exchange ends if made
create_profile(ctx0, sync_user, sync_key, sync_password, no_sync, reply) ==
    LET ctx == Enter(ctx0, "create_profile") IN
    IF DbPresent(ctx) THEN Return(ctx, TRUE)
    ELSE IF NeedsExchange(sync_key, sync_password, no_sync)
    THEN IF sync_user = "" THEN Return(ctx, FALSE)
         ELSE LET final_sync_key ==
                      Exchange("setup", FALSE, sync_user, sync_password.s, reply).ret
                  called == [ctx EXCEPT !.net = Append(@, "hostKey")]
              IN  IF ~Truthy(final_sync_key) THEN Return(called, FALSE)
                  ELSE Return([called EXCEPT !.fs.prefs_db =
                                   CreatedDb(sync_user, final_sync_key, no_sync)], TRUE)
    ELSE Return([ctx EXCEPT !.fs.prefs_db =
                     CreatedDb(sync_user, PyString(sync_key), no_sync)], TRUE)

\* what download_addon fetches: nothing (HTTP error, exception) or an archive
Download(ok, zip_ok, files, config) ==
    [ok |-> ok, zip_ok |-> zip_ok, files |-> files, config |-> config,
     config_valid |-> TRUE]

\* the same archive with a config.json that is not JSON
BrokenConfig(dl) == [dl EXCEPT !.config_valid = FALSE, !.config = EmptyDict]

\* variation: install_addon without its existence check
FolderPresentNever(ctx) == FALSE

\* addon_folder.exists()
FolderPresent(ctx) == ctx.fs.addon_folder.exists

\* AnkiSetup.install_addon
install_addon(ctx0, dl) ==
    LET ctx == Enter(ctx0, "install_addon") IN
    IF FolderPresent(ctx) THEN Return(ctx, TRUE)
    ELSE LET called == [ctx EXCEPT !.net = Append(@, "download")] IN
         IF ~dl.ok THEN Return(called, FALSE)
         ELSE IF ~dl.zip_ok
         THEN Return([called EXCEPT !.fs.addon_folder = AddonFolder(TRUE, {}, FALSE)], FALSE)
         ELSE Return([called EXCEPT
                        !.fs.addon_folder = AddonFolder(TRUE, dl.files, TRUE),
                        !.fs.config_json =
                            IF "config.json" \in dl.files
                            THEN ConfigJson(TRUE, dl.config_valid, dl.config, "archive")
                            ELSE NoConfigJson], TRUE)

DefaultConfig ==
    [apiKey |-> "null", apiLogPath |-> "null", ignoreOriginList |-> "[]",
     webBindAddress |-> "\"0.0.0.0\"", webBindPort |-> "8765",
     webCorsOrigin |-> "\"http://localhost\"", webCorsOriginList |-> "[\"*\"]"]

\* AnkiSetup.configure_addon; `custom` is self.ankiconnect_config
configure_addon(ctx0, custom) ==
    LET ctx == Enter(ctx0, "configure_addon") IN
    IF ~ctx.fs.addon_folder.exists THEN Return(ctx, FALSE)
    ELSE LET existing == IF ctx.fs.config_json.exists /\ ctx.fs.config_json.valid
                         THEN ctx.fs.config_json.map ELSE EmptyDict
             config == DictUpdate(DictUpdate(existing, DefaultConfig), custom)
         IN  Return([ctx EXCEPT !.fs.config_json =
                          ConfigJson(TRUE, TRUE, config, "configure_addon")], TRUE)

\* variation: setup_all goes on after an operation that failed
OperationFailedIgnored(r) == FALSE

\* if not operation()
OperationFailed(r) == ~r.ok

\* AnkiSetup.setup_all
setup_all(ctx0, sync_user, sync_key, sync_password, no_sync, reply, dl, custom) ==
    LET ctx == Enter(ctx0, "setup_all") IN
    IF ctx.fs.prefs_db.exists THEN Return(ctx, TRUE)
    ELSE LET a == create_profile(ctx, sync_user, sync_key, sync_password, no_sync, reply) IN
         IF OperationFailed(a) THEN Return(a, FALSE)
         ELSE LET b == install_addon(a, dl) IN
              IF OperationFailed(b) THEN Return(b, FALSE)
              ELSE LET c == configure_addon(b, custom) IN
                   IF OperationFailed(c) THEN Return(c, FALSE)
                   ELSE Return(c, TRUE)

(***************************************************************************)
(* The environment of provisioning: arguments, downloads, settings.        *)
(***************************************************************************)
MaxRuns == 3

SyncUsers == {"", "alice@example.com"}
SyncKeys == {"", KEY_B}
SyncPasswords == {PyNone, PyString("hunter2")}

ShippedConfig ==
    [apiKey |-> "null", webBindAddress |-> "\"127.0.0.1\"", webBindPort |-> "8765",
     webBacklog |-> "5"]

Downloads ==
    {Download(FALSE, FALSE, {}, EmptyDict),
     Download(TRUE, FALSE, {}, EmptyDict),
     Download(TRUE, TRUE, {"__init__.py", "manifest.json"}, EmptyDict),
     Download(TRUE, TRUE, {"__init__.py", "config.json"}, ShippedConfig),
     BrokenConfig(Download(TRUE, TRUE, {"__init__.py", "config.json"}, ShippedConfig))}

\* how the key exchange made by create_profile can end
SetupReplies ==
    {Response("response", 200, Frame("sized", Bytes(d, 0))) :
        d \in {DocKey(KEY_A), DocKey(""), DocNoKey, DocKeyInt}}
    \cup {Response("response", 403, Frame("corrupt", NoBytes)),
          Response("Timeout", 0, Frame("corrupt", NoBytes))}

\* the ANKICONNECT_* variables; "" stands for unset or empty, which
\* get_env_config treats alike
Env(bind_addr, bind_port, cors_origin, api_key, api_log_path) ==
    [bind_addr |-> bind_addr, bind_port |-> bind_port, cors_origin |-> cors_origin,
     api_key |-> api_key, api_log_path |-> api_log_path]

\* json.dumps of a str
JsonString(s) == "\"" \o s \o "\""

\* int(bind_port): the JSON text of the number, or "" for ValueError
IntText(s) ==
    CASE s = "9000" -> "9000"
      [] s = " 9000" -> "9000"
      [] OTHER -> ""

\* json.loads(cors_origin) re-dumped, or the one-element list on JSONDecodeError
CorsText(s) ==
    IF s = "[\"https://a.example\"]" THEN s ELSE "[" \o JsonString(s) \o "]"

Setting(cond, key, value) == IF cond THEN (key :> value) ELSE EmptyDict

\* get_env_config()['ankiconnect_config']
ankiconnect_config(env) ==
    DictUpdate(Setting(env.bind_addr # "", "webBindAddress", JsonString(env.bind_addr)),
    DictUpdate(Setting(env.bind_port # "" /\ IntText(env.bind_port) # "",
                       "webBindPort", IntText(env.bind_port)),
    DictUpdate(Setting(env.cors_origin # "", "webCorsOriginList", CorsText(env.cors_origin)),
    DictUpdate(Setting(env.api_key # "", "apiKey", JsonString(env.api_key)),
               Setting(env.api_log_path # "", "apiLogPath", JsonString(env.api_log_path))))))

Envs ==
    {Env("", "", "", "", ""),
     Env("", " 9000", "", "secret", ""),
     Env("127.0.0.1", "http", "https://a.example", "", "")}

CustomConfigs == {ankiconnect_config(env) : env \in Envs}

\* the arguments main passes to the operation it runs
Args(sync_user, sync_key, sync_password, no_sync, custom) ==
    [sync_user |-> sync_user, sync_key |-> sync_key, sync_password |-> sync_password,
     no_sync |-> no_sync, custom |-> custom]
NoArgs == Args("", "", PyNone, FALSE, EmptyDict)

\* what the last run of the script was and did
Run(action, args, before, ctx) ==
    [action |-> action, args |-> args, before |-> before, net |-> ctx.net,
     ops |-> ctx.ops, entry |-> ctx.entry, rets |-> ctx.rets,
     ok |-> ctx.ok, exit_code |-> IF ctx.ok THEN 0 ELSE 1]
NoRun == Run("none", NoArgs, EmptyFiles, Ctx(EmptyFiles, <<>>, <<>>, FALSE))

SetupInit ==
    /\ fs = EmptyFiles
    /\ last = NoRun
    /\ runs = 0

\* the ends the key exchange can take in a run: none unless create_profile
\* gets as far as get_sync_key_from_server
RepliesFor(files, sync_user, sync_key, sync_password, no_sync) ==
    IF /\ ~files.prefs_db.exists
       /\ NeedsExchange(sync_key, sync_password, no_sync)
       /\ sync_user # ""
    THEN SetupReplies ELSE {NoResponse}

\* main: one run of setup_anki.py with the given action
Ran(action, args, ctx) ==
    /\ runs < MaxRuns
    /\ runs' = runs + 1
    /\ fs' = ctx.fs
    /\ last' = Run(action, args, fs, ctx)
    /\ UNCHANGED exchangeVars

RunCreateProfile ==
    \E u \in SyncUsers, k \in SyncKeys, p \in SyncPasswords, n \in BOOLEAN :
      \E reply \in RepliesFor(fs, u, k, p, n) :
        Ran("create-profile", Args(u, k, p, n, EmptyDict),
            create_profile(Ctx(fs, <<>>, <<>>, FALSE), u, k, p, n, reply))

RunInstallAddon ==
    \E dl \in Downloads :
        Ran("install-addon", NoArgs, install_addon(Ctx(fs, <<>>, <<>>, FALSE), dl))

RunConfigureAddon ==
    \E custom \in CustomConfigs :
        Ran("configure-addon", Args("", "", PyNone, FALSE, custom),
            configure_addon(Ctx(fs, <<>>, <<>>, FALSE), custom))

RunSetupAll ==
    \E u \in SyncUsers, k \in SyncKeys, p \in SyncPasswords, n \in BOOLEAN,
       dl \in Downloads, custom \in CustomConfigs :
      \E reply \in RepliesFor(fs, u, k, p, n) :
        Ran("setup-all", Args(u, k, p, n, custom),
            setup_all(Ctx(fs, <<>>, <<>>, FALSE), u, k, p, n, reply, dl, custom))

SetupNext ==
    \/ RunCreateProfile
    \/ RunInstallAddon
    \/ RunConfigureAddon
    \/ RunSetupAll

\* the key exchange on its own: no provisioning run happens
Init == ExchangeInit /\ SetupInit
Next == ExchangeNext
Spec == Init /\ [][Next]_vars

\* provisioning on its own: the exchange is made inside create_profile
SetupOnlyInit ==
    /\ calls = [c \in Calls |-> NewCall("setup", FALSE, "", "")]
    /\ network = {}
    /\ wire = [c \in Calls |-> NoResponse]
    /\ served = {}
    /\ fs = EmptyFiles
    /\ last = NoRun
    /\ runs = 0

SetupSpec == SetupOnlyInit /\ [][SetupNext]_vars

(***************************************************************************)
(* Vocabulary of the properties of the key exchange.                       *)
(***************************************************************************)
Returned(st) == st.pc \in {"Returned", "Exited"}

\* a credential: a non-empty string
IsCredential(v) == v.t = "str" /\ v.s # ""

\* the diagnostics of a call: get_sync_key writes them to stderr, AnkiSetup
\* writes them with self.info
Reported(st) == IF st.variant = "cli" THEN st.stderr ELSE st.stdout

TransportError == "TransportError"
DecompressionError == "DecompressionError"
MalformedResponseError == "MalformedResponseError"
ProtocolError == "ProtocolError"
ErrorKinds == {TransportError, DecompressionError, MalformedResponseError, ProtocolError}

\* the error kind a diagnostic stands for; an exception that reaches the
\* catch-all clause on well-formed JSON counts as a protocol error
KindOf(line) ==
    CASE line.msg \in {"Error: HTTP from AnkiWeb", "[ERROR] HTTP from AnkiWeb",
                       "Error: Connection timeout", "Error: Connection failed",
                       "[ERROR] Connection error"}          -> TransportError
      [] line.msg \in {"Error: ZstdError", "[ERROR] ZstdError"} -> DecompressionError
      [] line.msg \in {"Error: Invalid JSON response", "[ERROR] JSONDecodeError"}
                                                              -> MalformedResponseError
      [] OTHER                                                -> ProtocolError

KindsReported(st) == {KindOf(Reported(st)[i]) : i \in 1..Len(Reported(st))}

\* what requests.post ended with in this call
ReplyOf(st) ==
    IF st.response # NoResponse THEN st.response
    ELSE Response(st.exc, 0, Frame("corrupt", NoBytes))

Is200(st) == st.response.kind = "response" /\ st.response.status_code = 200

(***************************************************************************)
(* C1.  One call of the key exchange ends in exactly one outcome: it       *)
(* returns a credential string and reports no error, or it returns no      *)
(* credential and reports exactly one of the four error kinds.             *)
(* The code breaks this: a "key" that is empty or no string is returned as  *)
(* it is, with no error reported.                                          *)
(***************************************************************************)
C1_ExactlyOneOutcome ==
    \A c \in Calls :
        Returned(calls[c]) =>
            \/ /\ IsCredential(calls[c].ret)
               /\ Reported(calls[c]) = <<>>
            \/ /\ calls[c].ret = FailureValue(calls[c].variant)
               /\ Len(Reported(calls[c])) = 1
               /\ KindsReported(calls[c]) \subseteq ErrorKinds

(***************************************************************************)
(* C2.  After a 200 response whose body decodes to a JSON object, the call *)
(* returns a credential iff the object holds a non-empty string under      *)
(* "key", and then exactly that string; otherwise it reports ProtocolError *)
(* and returns no credential.  The code breaks this.                       *)
(***************************************************************************)
C2_KeyOrProtocolError ==
    \A c \in Calls :
        LET st == calls[c] IN
        (Returned(st) /\ Is200(st) /\ st.data.t = "dict") =>
            IF st.data.haskey /\ IsCredential(st.data.key)
            THEN st.ret = st.data.key /\ Reported(st) = <<>>
            ELSE /\ KindsReported(st) = {ProtocolError}
                 /\ st.ret = FailureValue(st.variant)

(***************************************************************************)
(* C3.  A response with a status other than 200 makes the call report the  *)
(* HTTP error with that status and return the failure value at once: the   *)
(* body is never decompressed (single-shot or streaming) nor parsed.       *)
(***************************************************************************)
C3_NonOkStatusStops ==
    \A c \in Calls :
        LET st == calls[c] IN
        (st.response.kind = "response" /\ st.response.status_code # 200) =>
            /\ st.pc \in {"CheckStatus", "Returned", "Exited"}
            /\ st.trace = <<"compress", "post">>
            /\ st.path = "none" /\ st.decompressed_body = NoBytes /\ st.data = NoData
            /\ Returned(st) =>
                  /\ ~IsCredential(st.ret)
                  /\ st.ret = (IF st.variant = "cli" THEN PyString("") ELSE PyNone)
                  /\ Len(Reported(st)) = 1
                  /\ Reported(st)[1].code = st.response.status_code
                  /\ KindOf(Reported(st)[1]) = TransportError

C3_Witness ==
    \E c \in Calls :
        /\ Returned(calls[c])
        /\ calls[c].response = Response("response", 403, Frame("sized", Bytes(DocKey(KEY_A), 0)))

(***************************************************************************)
(* C4.  A response body whose decompressed size exceeds the cap makes the  *)
(* call report DecompressionError and return no credential, on every path. *)
(* The code breaks this: the streaming fallback reads without a cap.       *)
(***************************************************************************)
C4_OversizedBodyRejected ==
    \A c \in Calls :
        LET st == calls[c] IN
        (Returned(st) /\ Is200(st) /\ st.response.content.frame # "corrupt"
            /\ ByteLen(st.response.content.content) > MAX_OUTPUT_SIZE) =>
            /\ ~IsCredential(st.ret)
            /\ KindsReported(st) = {DecompressionError}

(***************************************************************************)
(* C5.  The streaming read is attempted only right after the single-shot   *)
(* decompression raised, never after a JSON error or a missing key of the  *)
(* single-shot path; and when it decodes an object with a "key" field the  *)
(* call returns what the single-shot path returns for the same JSON, that  *)
(* string when the key is one.                                             *)
(***************************************************************************)
SingleShotResult(st) ==
    Exchange(st.variant, st.debug, st.username, st.password,
             Response("response", 200, Frame("sized", Bytes(st.response.content.content.text, 0))))

Failed(st) == Returned(st) /\ Reported(st) # <<>>

C6_KindsDistinguishableByResult ==
    \A c, d \in Calls :
        (/\ Failed(calls[c]) /\ Failed(calls[d])
         /\ calls[c].variant = calls[d].variant
         /\ KindsReported(calls[c]) # KindsReported(calls[d]))
        => calls[c].ret # calls[d].ret

(***************************************************************************)
(* C6, amended.  Every failure is terminal (the call takes no further step *)
(* of the exchange, its result and diagnostics stay as they are) and the   *)
(* caller receives the same value for every failure kind: "" from          *)
(* get_sync_key, None from get_sync_key_from_server; the kind shows only   *)
(* in the single diagnostic line written.                                  *)
(***************************************************************************)
C6_FailuresTerminalOneValue ==
    /\ [](\A c \in Calls :
            Failed(calls[c]) =>
                /\ calls[c].ret = (IF calls[c].variant = "cli" THEN PyString("") ELSE PyNone)
                /\ Len(Reported(calls[c])) = 1)
    /\ [][\A c \in Calls :
            Failed(calls[c]) =>
                /\ Failed(calls'[c])
                /\ calls'[c].ret = calls[c].ret
                /\ Reported(calls'[c]) = Reported(calls[c])
                /\ calls'[c].trace = calls[c].trace
                /\ calls'[c].pc \in {"Returned", "Exited"}]_vars

C6_Witness ==
    /\ calls["c1"].variant = calls["c2"].variant
    /\ Failed(calls["c1"]) /\ Failed(calls["c2"])
    /\ KindsReported(calls["c1"]) = {TransportError}
    /\ KindsReported(calls["c2"]) = {ProtocolError}
    /\ calls["c1"].ret = calls["c2"].ret

(***************************************************************************)
(* C7.  get_anki_synckey exits with 0 exactly when a credential was        *)
(* obtained, having written the credential and nothing else to stdout; it  *)
(* exits with 1 on every failure, having written nothing to stdout.        *)
(* The code breaks this for a "key" that is no string (see C2).            *)
(***************************************************************************)
CredentialObtained(st) ==
    Is200(st) /\ st.data.t = "dict" /\ st.data.haskey /\ IsCredential(st.data.key)

C7_ExitCodeMatchesCredential ==
    \A c \in Calls :
        LET st == calls[c] IN
        (st.variant = "cli" /\ st.pc = "Exited") =>
            /\ st.exit_code \in {0, 1}
            /\ st.exit_code = 0 <=> CredentialObtained(st)
            /\ st.exit_code = 0 => st.stdout = <<Line(st.data.key.s, 0)>>
            /\ st.exit_code = 1 => st.stdout = <<>>

(***************************************************************************)
(* C8.  Two calls with different credentials, interleaved in any way, each *)
(* send their own credentials, receive the reply the server gave to their  *)
(* own request, and return the result and diagnostics that this reply      *)
(* determines.                                                             *)
(***************************************************************************)
C8_NoCrossContamination ==
    \A c \in Calls :
        LET st == calls[c] IN
        /\ st.pc # "Idle" =>
              st.request.data = ZstdCompress(JsonDumpsPayload(st.username, st.password))
        /\ st.pc \notin {"Idle", "RequestBuilt", "Sent"} =>
              [req |-> st.request, reply |-> ReplyOf(st)] \in served
        /\ Returned(st) =>
              LET alone == Exchange(st.variant, st.debug, st.username, st.password, ReplyOf(st))
              IN  st.ret = alone.ret /\ Reported(st) = Reported(alone)

C8_Witness ==
    /\ Returned(calls["c1"]) /\ Returned(calls["c2"])
    /\ calls["c1"].ret = PyString(KEY_A)
    /\ calls["c2"].ret = PyString(KEY_B)
    /\ calls["c1"].username # calls["c2"].username

(***************************************************************************)
(* Vocabulary of the properties of provisioning.                           *)
(***************************************************************************)
\* operation `op` was entered in the last run
Entered(op) == \E i \in 1..Len(last.ops) : last.ops[i] = op

\* the last run was this operation called directly, as the command's action
Direct(action, op) == last.action = action /\ last.ops = <<op>>

(***************************************************************************)
(* C9.  Whenever setup_all returns True, after any earlier runs, the       *)
(* profile database exists, the AnkiConnect add-on folder exists and its   *)
(* config.json has been written by configure_addon.                        *)
(* The code breaks this: setup_all returns True as soon as the database    *)
(* exists, whatever became of the add-on in the earlier run.               *)
(***************************************************************************)
C9_SetupAllTrueMeansComplete ==
    (last.action = "setup-all" /\ last.ok) =>
        /\ fs.prefs_db.exists
        /\ fs.addon_folder.exists
        /\ fs.config_json.exists /\ fs.config_json.writer = "configure_addon"

(***************************************************************************)
(* C10.  create_profile called when the profile database exists, and       *)
(* install_addon called when the add-on folder exists, return True, make   *)
(* no network call and leave the database and every file as they were.     *)
(***************************************************************************)
C10_ExistenceChecksIdempotent ==
    /\ (Direct("create-profile", "create_profile") /\ last.before.prefs_db.exists) =>
          last.ok /\ last.net = <<>> /\ fs = last.before
    /\ (Direct("install-addon", "install_addon") /\ last.before.addon_folder.exists) =>
          last.ok /\ last.net = <<>> /\ fs = last.before
    /\ (Entered("install_addon") /\ last.before.addon_folder.exists) =>
          /\ \A i \in 1..Len(last.net) : last.net[i] # "download"
          /\ fs.addon_folder = last.before.addon_folder
    /\ (Entered("create_profile") /\ last.before.prefs_db.exists) =>
          /\ \A i \in 1..Len(last.net) : last.net[i] # "hostKey"
          /\ fs.prefs_db = last.before.prefs_db

\* both steps have been run on top of their own result, the profile holding
\* a key fetched from the server
C10_Witness ==
    /\ Direct("install-addon", "install_addon")
    /\ last.before.addon_folder.exists
    /\ last.before.prefs_db.exists
    /\ last.before.prefs_db.profile.syncKey = PyString(KEY_A)
    /\ fs = last.before

\* the last run sent this request
Sent(call) == \E i \in 1..Len(last.net) : last.net[i] = call

\* the last run wrote the profile database
ProfileWritten == ~last.before.prefs_db.exists /\ fs.prefs_db.exists

(***************************************************************************)
(* C11.  In create_profile a supplied sync key takes precedence over a     *)
(* supplied password: when sync_key is non-empty no request goes to the    *)
(* key-issuance endpoint, whatever sync_password and sync_user are, and    *)
(* the profile record written with no_sync false stores exactly that key;  *)
(* a request is sent only when sync_key is empty, a password is given and  *)
(* no_sync is false.                                                       *)
(***************************************************************************)
C11_SyncKeyTakesPrecedence ==
    Entered("create_profile") =>
        /\ last.args.sync_key # "" =>
              /\ ~Sent("hostKey")
              /\ (ProfileWritten /\ ~last.args.no_sync) =>
                    fs.prefs_db.profile.syncKey = PyString(last.args.sync_key)
        /\ Sent("hostKey") =>
              /\ last.args.sync_key = ""
              /\ last.args.sync_password # PyNone /\ last.args.sync_password.s # ""
              /\ ~last.args.no_sync

\* a key and a password were both supplied and the profile was written with
\* the supplied key
C11_Witness ==
    /\ Direct("create-profile", "create_profile")
    /\ last.args.sync_key = KEY_B
    /\ last.args.sync_password = PyString("hunter2")
    /\ last.args.sync_user # ""
    /\ ~last.args.no_sync
    /\ ProfileWritten
    /\ fs.prefs_db.profile.syncKey = PyString(KEY_B)
    /\ last.net = <<>>

\* the exchange was made, for an empty key, and its key was stored
C11_WitnessExchange ==
    /\ Entered("create_profile")
    /\ Sent("hostKey")
    /\ ProfileWritten
    /\ fs.prefs_db.profile.syncKey = PyString(KEY_A)

\* the order in which a setup_all that does not skip runs its operations
SetupOrder == <<"setup_all", "create_profile", "install_addon", "configure_addon">>

\* the last run was a setup_all that did not skip
SetupAllRan == last.action = "setup-all" /\ ~last.before.prefs_db.exists

\* the value the i-th operation started by setup_all returned: operations
\* return in the order they start, and setup_all returns last
Returns(i) == last.rets[i]

C12_WitnessFirstFails ==
    /\ SetupAllRan
    /\ last.ops = <<"setup_all", "create_profile">>
    /\ last.rets = <<FALSE, FALSE>>
    /\ fs = last.before

\* all three operations ran
C12_WitnessAllRun ==
    /\ SetupAllRan
    /\ last.ops = SetupOrder
    /\ last.rets = <<TRUE, TRUE, TRUE, TRUE>>

\* configure_addon was the i-th operation entered in the last run, and it
\* is the last one any run enters
Configured(i) == i \in 1..Len(last.ops) /\ last.ops[i] = "configure_addon"

\* the dict configure_addon loaded from the files it found
ExistingConfig(files) ==
    IF files.config_json.exists /\ files.config_json.valid
    THEN files.config_json.map ELSE EmptyDict

C13_WitnessNoFolder ==
    /\ Direct("configure-addon", "configure_addon")
    /\ ~last.before.addon_folder.exists
    /\ ~last.ok
    /\ fs = last.before

\* configure_addon over a config.json that is not JSON
C13_WitnessBrokenConfig ==
    \E i \in 1..Len(last.ops) :
        /\ Configured(i)
        /\ last.entry[i].config_json.exists /\ ~last.entry[i].config_json.valid
        /\ last.args.custom # EmptyDict
        /\ last.ok

(***************************************************************************)
(* C14.  In every profile record written by create_profile, whatever       *)
(* sync_user, sync_key, sync_password and no_sync were, autoSync and       *)
(* syncMedia are true only if the stored syncKey is non-empty: a           *)
(* local-only profile never has automatic sync enabled.                    *)
(* The code breaks this: the flags are computed from the key that was      *)
(* supplied or fetched, the stored key is blanked by no_sync.              *)
(***************************************************************************)
C14_AutoSyncOnlyWithStoredKey ==
    fs.prefs_db.exists =>
        LET profile == fs.prefs_db.profile IN
        (profile.autoSync \/ profile.syncMedia) =>
            profile.syncKey # PyString("")

====
